---- MODULE Spec2Model ----
(***************************************************************************)
(* Model of docx-extractor: the structural extraction of a document into   *)
(* a flat, location-tagged content sequence (extraction.py), the header    *)
(* correction of a translation against its origin (correction.py) and the  *)
(* pipeline that chains them through JSON files (run.py).                  *)
(*                                                                         *)
(* A Python dict is a TLA+ function whose DOMAIN is the set of its keys,   *)
(* so that a missing key is a key outside the DOMAIN.  A Python list is a  *)
(* sequence; Python's 0-based index i is the sequence index i + 1.  A      *)
(* Python str is a sequence of one-character strings.  A call that can     *)
(* raise returns a record whose status names the exception.                *)
(***************************************************************************)
EXTENDS Integers, Sequences, FiniteSets, TLC

VARIABLES
    pc,                      \* position of the running entry point
    origin,                  \* correct_headers: the origin sequence
    translation,             \* correct_headers: the translation sequence passed in
    corrected_translation,   \* outcome of correct_headers(origin, translation)
    recorrected_translation, \* outcome of correct_headers(origin, corrected_translation)
    table,                   \* extract_table: the table given
    table_data,              \* extract_table: the rows returned
    container,               \* process_container: the header or footer given
    location,                \* process_container: the location given
    document,                \* extract_content_from_document: the document given
    content_list,            \* outcome of process_container / extract_content_from_document
    docx_files,              \* run.py: the two .docx files, by path
    json_files,              \* run.py: the .json files, by path
    log                      \* run.py: what the pipeline printed and saved, in order

correction_vars == <<origin, translation, corrected_translation, recorrected_translation>>
table_vars == <<table, table_data>>
extraction_vars == <<container, location, document, content_list>>
pipeline_vars == <<docx_files, json_files, log>>
vars == <<pc, correction_vars, table_vars, extraction_vars, pipeline_vars>>

\* The value of a variable the running entry point does not use.
Idle == "idle"

(***************************************************************************)
(* Bounds                                                                  *)
(***************************************************************************)
MaxTranslationLen == 3
MaxOriginLen == 3
MaxCells == 4
MaxCellElems == 1
MaxContainer == 3
MaxBody == 2
MaxSections == 2
MaxSectionContainer == 1
MaxFootnotes == 1

(***************************************************************************)
(* Generic helpers                                                         *)
(***************************************************************************)
\* The sequences over S of length at most n.
SeqsUpTo(S, n) == UNION {[1..k -> S] : k \in 0..n}

\* d[k] = v on a dict: the key is added when it is missing.
SetKey(d, k, v) == [x \in (DOMAIN d) \cup {k} |-> IF x = k THEN v ELSE d[x]]

\* d.get(k) == v for a value v that is not None.
GetIs(d, k, v) == k \in DOMAIN d /\ d[k] = v

\* Python's lst[n:] for n >= 0.
SliceFrom(lst, n) == IF n >= Len(lst) THEN <<>> ELSE SubSeq(lst, n + 1, Len(lst))

\* Python's lst[:n] for n >= 0.
SliceTo(lst, n) == IF n >= Len(lst) THEN lst ELSE SubSeq(lst, 1, n)

(***************************************************************************)
(* correction.py                                                           *)
(***************************************************************************)
RECURSIVE count_headers(_)
count_headers(data) ==
    IF data = <<>> THEN 0
    ELSE (IF GetIs(Head(data), "location", "header") THEN 1 ELSE 0)
         + count_headers(Tail(data))

\* The 0-based index of the first header, or -1 for None.
get_first_header_index(data) ==
    LET hits == {i \in 1..Len(data) : GetIs(data[i], "location", "header")}
    IN  IF hits = {} THEN -1
        ELSE (CHOOSE i \in hits : \A j \in hits : i <= j) - 1

header_difference_swapped(o, t) == count_headers(t) - count_headers(o)

header_difference(o, t) == count_headers(o) - count_headers(t)

promote_item_unflagged(item) == SetKey(item, "modified", TRUE)

\* translation[i]['location'] = 'header'; translation[i]['modified'] = True
promote_item(item) == SetKey(SetKey(item, "location", "header"), "modified", TRUE)

\* The loop `for i in range(header_difference)` from iteration i on.  The
\* items are mutated in place, so the list the caller passed changes too.
RECURSIVE promote_loop(_, _, _, _)
promote_loop(t, corrected_items, i, diff) ==
    IF i >= diff
    THEN [status |-> "ok", translation |-> t, corrected_items |-> corrected_items]
    ELSE IF i >= Len(t)
    THEN [status |-> "IndexError", translation |-> t, corrected_items |-> corrected_items]
    ELSE IF "location" \notin DOMAIN t[i + 1]
    THEN [status |-> "KeyError", translation |-> t, corrected_items |-> corrected_items]
    ELSE IF t[i + 1]["location"] = "body"
    THEN promote_loop([t EXCEPT ![i + 1] = promote_item(@)],
                      Append(corrected_items, promote_item(t[i + 1])), i + 1, diff)
    ELSE promote_loop(t, corrected_items, i + 1, diff)

\* translation[first_header_index:first_header_index] = corrected_items
SpliceAt(lst, index, items) == SliceTo(lst, index) \o items \o SliceFrom(lst, index)

\* status: "ok" or the exception raised; value: the list returned;
\* arg: the list the caller passed, as the call leaves it.
correct_headers(o, t) ==
    LET diff == header_difference(o, t)
    IN  IF diff > 0
        THEN LET loop == promote_loop(t, <<>>, 0, diff)
                 rest == SliceFrom(loop.translation, diff)
                 first_header_index == get_first_header_index(rest)
             IN  IF loop.status # "ok"
                 THEN [status |-> loop.status, value |-> <<>>, arg |-> loop.translation]
                 ELSE [status |-> "ok",
                       value  |-> IF first_header_index # -1
                                  THEN SpliceAt(rest, first_header_index, loop.corrected_items)
                                  ELSE rest \o loop.corrected_items,
                       arg    |-> loop.translation]
        ELSE [status |-> "ok", value |-> t, arg |-> t]

(***************************************************************************)
(* Inputs of the correction                                                *)
(***************************************************************************)
TextA == <<"a">>
TextB == <<"b">>
TextH == <<"h">>
TextF == <<"f">>
TextN == <<"n">>

BodyA == [text |-> TextA, location |-> "body"]
BodyB == [text |-> TextB, location |-> "body"]
HeaderH == [text |-> TextH, location |-> "header"]
FooterF == [text |-> TextF, location |-> "footer"]
BodyTable == [table |-> << << <<[text |-> TextA]>> >> >>]
FootnoteN == [text |-> TextN, type |-> "footnote"]

TranslationItems == {BodyA, BodyB, HeaderH, FooterF, BodyTable, FootnoteN}
OriginItems == {BodyA, HeaderH}

NoOutcome == [status |-> "none", value |-> <<>>, arg |-> <<>>]

(***************************************************************************)
(* Correction: correct_headers applied once, then again to its own result  *)
(***************************************************************************)
InitCorrect ==
    /\ pc = "loaded"
    /\ origin \in SeqsUpTo(OriginItems, MaxOriginLen)
    /\ translation \in SeqsUpTo(TranslationItems, MaxTranslationLen)
    /\ corrected_translation = NoOutcome
    /\ recorrected_translation = NoOutcome
    /\ table = Idle /\ table_data = Idle
    /\ container = Idle /\ location = Idle /\ document = Idle /\ content_list = Idle
    /\ docx_files = Idle /\ json_files = Idle /\ log = Idle

Correct ==
    /\ pc = "loaded"
    /\ corrected_translation' = correct_headers(origin, translation)
    /\ pc' = "corrected"
    /\ UNCHANGED <<origin, translation, recorrected_translation>>
    /\ UNCHANGED <<table_vars, extraction_vars, pipeline_vars>>

CorrectAgain ==
    /\ pc = "corrected"
    /\ corrected_translation.status = "ok"
    /\ recorrected_translation' = correct_headers(origin, corrected_translation.value)
    /\ pc' = "recorrected"
    /\ UNCHANGED <<origin, translation, corrected_translation>>
    /\ UNCHANGED <<table_vars, extraction_vars, pipeline_vars>>

NextCorrect == Correct \/ CorrectAgain

SpecCorrect == InitCorrect /\ [][NextCorrect]_vars


(***************************************************************************)
(* extraction.py                                                           *)
(*                                                                         *)
(* An element of the document tree is a record with its tag: a paragraph   *)
(* ("p") has runs, each a str; a table ("tbl") has rows, each a sequence   *)
(* of cells, each a sequence of elements; any other tag has nothing the    *)
(* extraction reads.                                                       *)
(***************************************************************************)
Whitespace == {" ", "\t", "\n"}

\* ''.join(parts)
RECURSIVE join(_)
join(parts) == IF parts = <<>> THEN <<>> ELSE Head(parts) \o join(Tail(parts))

\* sep.join(parts)
RECURSIVE join_with(_, _)
join_with(sep, parts) ==
    IF parts = <<>> THEN <<>>
    ELSE IF Len(parts) = 1 THEN Head(parts)
    ELSE Head(parts) \o sep \o join_with(sep, Tail(parts))

RECURSIVE lstrip(_)
lstrip(text) ==
    IF text # <<>> /\ Head(text) \in Whitespace THEN lstrip(Tail(text)) ELSE text

RECURSIVE rstrip(_)
rstrip(text) ==
    IF text # <<>> /\ text[Len(text)] \in Whitespace
    THEN rstrip(SubSeq(text, 1, Len(text) - 1)) ELSE text

\* str.strip()
strip(text) == rstrip(lstrip(text))

\* The loop of remove_consecutive_duplicates from index i on.
RECURSIVE dedup_loop(_, _, _)
dedup_loop(lst, new_lst, i) ==
    IF i >= Len(lst) THEN new_lst
    ELSE dedup_loop(lst,
                    IF lst[i + 1] # lst[i] THEN Append(new_lst, lst[i + 1]) ELSE new_lst,
                    i + 1)

RECURSIVE remove_all_duplicates(_)
remove_all_duplicates(lst) ==
    IF lst = <<>> THEN <<>>
    ELSE LET init == remove_all_duplicates(SubSeq(lst, 1, Len(lst) - 1))
             last == lst[Len(lst)]
         IN  IF \E i \in 1..Len(init) : init[i] = last THEN init ELSE Append(init, last)

remove_consecutive_duplicates(lst) ==
    IF lst = <<>> THEN <<>> ELSE dedup_loop(lst, <<lst[1]>>, 1)

\* ''.join(run.text for run in paragraph.runs), then strip() when non-empty.
paragraph_text(paragraph) ==
    LET text == join(paragraph.runs)
    IN  IF text # <<>> THEN strip(text) ELSE text

RECURSIVE extract_table(_)
RECURSIVE extract_content_from_cell(_)

extract_content_from_cell(cell) ==
    IF cell = <<>> THEN <<>>
    ELSE LET element == Head(cell)
             rest == extract_content_from_cell(Tail(cell))
         IN  IF element.tag = "tbl"
             THEN <<[table |-> extract_table(element)]>> \o rest
             ELSE IF element.tag = "p"
             THEN (IF paragraph_text(element) # <<>>
                   THEN <<[text |-> paragraph_text(element)]>> ELSE <<>>) \o rest
             ELSE rest

extract_table(tbl) ==
    [r \in 1..Len(tbl.rows) |->
        remove_consecutive_duplicates(
            [c \in 1..Len(tbl.rows[r]) |-> extract_content_from_cell(tbl.rows[r][c])])]

\* The texts process_container collects, in the order of the elements.
RECURSIVE local_texts(_, _)
local_texts(elements, loc) ==
    IF elements = <<>> THEN <<>>
    ELSE (IF Head(elements).tag = "p" /\ paragraph_text(Head(elements)) # <<>>
          THEN <<[text |-> paragraph_text(Head(elements)), location |-> loc]>>
          ELSE <<>>) \o local_texts(Tail(elements), loc)

\* The tables process_container collects, in the order of the elements.
RECURSIVE local_tables(_, _)
local_tables(elements, loc) ==
    IF elements = <<>> THEN <<>>
    ELSE (IF Head(elements).tag = "tbl"
          THEN <<[table |-> extract_table(Head(elements)), location |-> loc]>>
          ELSE <<>>) \o local_tables(Tail(elements), loc)

process_container(elements, loc) == local_texts(elements, loc) \o local_tables(elements, loc)

RECURSIVE header_contents(_)
header_contents(sections) ==
    IF sections = <<>> THEN <<>>
    ELSE process_container(Head(sections).header, "header") \o header_contents(Tail(sections))

RECURSIVE footer_contents(_)
footer_contents(sections) ==
    IF sections = <<>> THEN <<>>
    ELSE process_container(Head(sections).footer, "footer") \o footer_contents(Tail(sections))

RECURSIVE section_contents_interleaved(_)
section_contents_interleaved(sections) ==
    IF sections = <<>> THEN <<>>
    ELSE process_container(Head(sections).header, "header")
         \o process_container(Head(sections).footer, "footer")
         \o section_contents_interleaved(Tail(sections))

extract_text_interleaved(doc) == section_contents_interleaved(doc.sections)

extract_text_from_headers_and_footers(doc) ==
    header_contents(doc.sections) \o footer_contents(doc.sections)

\* The body pass of extract_content_from_document.
RECURSIVE body_contents(_)
body_contents(elements) ==
    IF elements = <<>> THEN <<>>
    ELSE LET element == Head(elements)
             rest == body_contents(Tail(elements))
         IN  IF element.tag = "tbl"
             THEN <<[table |-> extract_table(element)]>> \o rest
             ELSE IF element.tag = "p"
             THEN (IF paragraph_text(element) # <<>>
                   THEN <<[text |-> paragraph_text(element), location |-> "body"]>>
                   ELSE <<>>) \o rest
             ELSE rest

\* The blob of a footnotes part is XML text: well formed, with the
\* w:footnote elements it holds, or not.
MalformedXml == [well_formed |-> FALSE, footnotes |-> <<>>]
Xml(footnotes) == [well_formed |-> TRUE, footnotes |-> footnotes]

\* No footnotes part: the None of `footnotes_part = None`.
NonePart == [blob |-> [well_formed |-> FALSE, footnotes |-> <<"None">>]]

\* The target of the first relationship whose type names the footnotes.
footnotes_part(doc) ==
    LET hits == {i \in 1..Len(doc.rels) : doc.rels[i].reltype = "footnotes"}
    IN  IF hits = {} THEN NonePart
        ELSE doc.rels[CHOOSE i \in hits : \A j \in hits : i <= j].target_part

\* One item per w:footnote, its non-empty w:t texts joined by a space.
RECURSIVE footnote_items(_)
footnote_items(footnotes) ==
    IF footnotes = <<>> THEN <<>>
    ELSE <<[text |-> strip(join_with(<<" ">>, SelectSeq(Head(footnotes), LAMBDA t : t # <<>>))),
            type |-> "footnote"]>> \o footnote_items(Tail(footnotes))

extract_footnotes_from_xml(doc) ==
    LET part == footnotes_part(doc)
    IN  IF part = NonePart THEN [status |-> "ok", value |-> <<>>]
        ELSE IF ~part.blob.well_formed THEN [status |-> "ParseError", value |-> <<>>]
        ELSE [status |-> "ok", value |-> footnote_items(part.blob.footnotes)]

extract_content_from_document(doc) ==
    LET notes_texts == extract_footnotes_from_xml(doc)
    IN  IF notes_texts.status # "ok"
        THEN [status |-> notes_texts.status, value |-> <<>>]
        ELSE [status |-> "ok",
              value  |-> body_contents(doc.body)
                         \o extract_text_from_headers_and_footers(doc)
                         \o notes_texts.value]

(***************************************************************************)
(* Inputs of the extraction                                                *)
(***************************************************************************)
ParaX == [tag |-> "p", runs |-> << <<" ">>, <<"x", " ">> >>]
ParaBlank == [tag |-> "p", runs |-> << <<" ">> >>]
ParaEmpty == [tag |-> "p", runs |-> <<>>]
ParaH == [tag |-> "p", runs |-> << <<"h">> >>]
Other == [tag |-> "sectPr"]

\* A table of two rows, the first with a merged cell read twice.
InnerTable ==
    [tag |-> "tbl",
     rows |-> << << <<ParaX>>, <<ParaX>>, <<ParaH>> >>, << <<ParaH>> >> >>]

CellElems == {ParaX, ParaBlank, InnerTable}
Cells == SeqsUpTo(CellElems, MaxCellElems)
Rows == SeqsUpTo(Cells, MaxCells)

ContainerElems == {ParaH, ParaBlank, InnerTable, Other}
Containers == SeqsUpTo(ContainerElems, MaxContainer)

(***************************************************************************)
(* Table: extract_table applied to a table of one row                      *)
(***************************************************************************)
InitTable ==
    /\ pc = "given"
    /\ \E row \in Rows : table = [tag |-> "tbl", rows |-> <<row>>]
    /\ table_data = Idle
    /\ origin = Idle /\ translation = Idle
    /\ corrected_translation = Idle /\ recorrected_translation = Idle
    /\ container = Idle /\ location = Idle /\ document = Idle /\ content_list = Idle
    /\ docx_files = Idle /\ json_files = Idle /\ log = Idle

ExtractTable ==
    /\ pc = "given"
    /\ table_data' = extract_table(table)
    /\ pc' = "extracted"
    /\ UNCHANGED <<table, correction_vars, extraction_vars, pipeline_vars>>

NextTable == ExtractTable

SpecTable == InitTable /\ [][NextTable]_vars

(***************************************************************************)
(* Container: process_container applied to a header or a footer            *)
(***************************************************************************)
InitContainer ==
    /\ pc = "given"
    /\ container \in Containers
    /\ location \in {"header", "footer"}
    /\ document = Idle /\ content_list = Idle
    /\ origin = Idle /\ translation = Idle
    /\ corrected_translation = Idle /\ recorrected_translation = Idle
    /\ table = Idle /\ table_data = Idle
    /\ docx_files = Idle /\ json_files = Idle /\ log = Idle

ProcessContainer ==
    /\ pc = "given"
    /\ content_list' = [status |-> "ok", value |-> process_container(container, location)]
    /\ pc' = "extracted"
    /\ UNCHANGED <<container, location, document>>
    /\ UNCHANGED <<correction_vars, table_vars, pipeline_vars>>

NextContainer == ProcessContainer

SpecContainer == InitContainer /\ [][NextContainer]_vars


(***************************************************************************)
(* Document: extract_content_from_document applied to a document           *)
(***************************************************************************)
BodyElems == {ParaX, ParaBlank, InnerTable}

SectionContainers == SeqsUpTo({ParaH}, MaxSectionContainer)
Sections == [header : SectionContainers, footer : SectionContainers]

\* The w:t texts of a footnote, and those of the separator footnote.
FootnoteNM == <<TextN, <<>>, <<"m", " ">> >>
FootnoteSeparator == <<>>
FootnoteBlobs ==
    {Xml(footnotes) : footnotes \in SeqsUpTo({FootnoteNM, FootnoteSeparator}, MaxFootnotes)}
    \cup {MalformedXml}

StylesRel == [reltype |-> "styles", target_part |-> [blob |-> Xml(<<>>)]]
FootnotesRel(blob) == [reltype |-> "footnotes", target_part |-> [blob |-> blob]]
RelLists == {<<>>} \cup {<<StylesRel, FootnotesRel(blob)>> : blob \in FootnoteBlobs}

Documents ==
    [body : SeqsUpTo(BodyElems, MaxBody),
     sections : SeqsUpTo(Sections, MaxSections),
     rels : RelLists]

InitDocument ==
    /\ pc = "given"
    /\ document \in Documents
    /\ content_list = Idle
    /\ container = Idle /\ location = Idle
    /\ origin = Idle /\ translation = Idle
    /\ corrected_translation = Idle /\ recorrected_translation = Idle
    /\ table = Idle /\ table_data = Idle
    /\ docx_files = Idle /\ json_files = Idle /\ log = Idle

ExtractDocument ==
    /\ pc = "given"
    /\ content_list' = extract_content_from_document(document)
    /\ pc' = "extracted"
    /\ UNCHANGED <<container, location, document>>
    /\ UNCHANGED <<correction_vars, table_vars, pipeline_vars>>

NextDocument == ExtractDocument

SpecDocument == InitDocument /\ [][NextDocument]_vars

(***************************************************************************)
(* run.py: extract the original, extract the translation, correct          *)
(***************************************************************************)
\* A .docx file that Document(file_path) cannot open, and one it opens.
Unreadable == [readable |-> FALSE]
Docx(doc) == [readable |-> TRUE, document |-> doc]

\* A .json file that does not exist.
Absent == [exists |-> FALSE]

\* json.dump(data, f): what the file holds.
json_dump(data) == [exists |-> TRUE, encoding |-> "utf-8", json |-> data]

\* json.load(f) on what a file holds.
json_load(content) == content.json

\* The list returned, and whether the error was printed; it never raises.
extract_content_from_docx(file) ==
    IF ~file.readable THEN [value |-> <<>>, error |-> TRUE]
    ELSE LET contents == extract_content_from_document(file.document)
         IN  IF contents.status = "ok" THEN [value |-> contents.value, error |-> FALSE]
             ELSE [value |-> <<>>, error |-> TRUE]

\* The files as save_to_json(contents, output_path) leaves them.
save_to_json(files, contents, output_path) ==
    [files EXCEPT ![output_path] = json_dump(contents)]

process_docx_and_save_to_json(input_file_path, output_file_path) ==
    LET contents == extract_content_from_docx(docx_files[input_file_path])
    IN  /\ json_files' = save_to_json(json_files, contents.value, output_file_path)
        /\ log' = log \o (IF contents.error THEN <<"Error processing " \o input_file_path>>
                          ELSE <<>>)
                      \o <<"Data saved to " \o output_file_path>>

load_json(filename) ==
    IF ~json_files[filename].exists THEN [status |-> "FileNotFoundError", value |-> <<>>]
    ELSE [status |-> "ok", value |-> json_load(json_files[filename])]

\* The files as save_json(filename, data) leaves them.
save_json(files, filename, data) == [files EXCEPT ![filename] = json_dump(data)]

correct_translation_from_files(original_url, translation_url, output_path) ==
    LET o == load_json(original_url)
        t == load_json(translation_url)
        corrected == correct_headers(o.value, t.value)
    IN  IF o.status = "ok" /\ t.status = "ok" /\ corrected.status = "ok"
        THEN /\ origin' = o.value
             /\ translation' = t.value
             /\ corrected_translation' = corrected
             /\ json_files' = save_json(json_files, output_path, corrected.value)
             /\ log' = Append(log, "save_json " \o output_path)
        ELSE /\ origin' = o.value
             /\ translation' = t.value
             /\ corrected_translation' =
                    IF o.status # "ok" THEN [NoOutcome EXCEPT !.status = o.status]
                    ELSE IF t.status # "ok" THEN [NoOutcome EXCEPT !.status = t.status]
                    ELSE corrected
             /\ json_files' = json_files
             /\ log' = Append(log, "Error during the correction process")

original_docx_path == "E.docx"
translation_docx_path == "C.docx"
original_json_path == "E.json"
translation_json_path == "C.json"
corrected_translation_json_path == translation_json_path

\* The documents the pipeline is run on: at most one body element, at most
\* one section, and a footnotes part, if any, that is empty or malformed.
PipelineDocuments ==
    {d \in Documents :
        /\ Len(d.body) <= 1
        /\ Len(d.sections) <= 1
        /\ d.rels # <<>> => d.rels[2].target_part.blob \in {Xml(<<>>), MalformedXml}}

InitMain ==
    /\ pc = "main"
    /\ docx_files \in [{original_docx_path, translation_docx_path} ->
                          {Docx(d) : d \in PipelineDocuments} \cup {Unreadable}]
    /\ json_files = [f \in {original_json_path, translation_json_path} |-> Absent]
    /\ log = <<>>
    /\ origin = Idle /\ translation = Idle
    /\ corrected_translation = Idle /\ recorrected_translation = Idle
    /\ table = Idle /\ table_data = Idle
    /\ container = Idle /\ location = Idle /\ document = Idle /\ content_list = Idle

ProcessOriginal ==
    /\ pc = "main"
    /\ process_docx_and_save_to_json(original_docx_path, original_json_path)
    /\ pc' = "original_saved"
    /\ UNCHANGED <<docx_files, correction_vars, table_vars, extraction_vars>>

ProcessTranslation ==
    /\ pc = "original_saved"
    /\ process_docx_and_save_to_json(translation_docx_path, translation_json_path)
    /\ pc' = "translation_saved"
    /\ UNCHANGED <<docx_files, correction_vars, table_vars, extraction_vars>>

CorrectTranslation ==
    /\ pc = "translation_saved"
    /\ correct_translation_from_files(original_json_path, translation_json_path,
                                      corrected_translation_json_path)
    /\ pc' = "done"
    /\ UNCHANGED <<docx_files, recorrected_translation, table_vars, extraction_vars>>

NextMain == ProcessOriginal \/ ProcessTranslation \/ CorrectTranslation

SpecMain == InitMain /\ [][NextMain]_vars

(***************************************************************************)
(* Properties of the correction                                            *)
(***************************************************************************)
\* The number of positions of s that hold an item located in the header.
HeaderCount(s) == Cardinality({i \in 1..Len(s) : GetIs(s[i], "location", "header")})

Deficit == HeaderCount(origin) - HeaderCount(translation)

IsBody(item) == GetIs(item, "location", "body")

IsModified(item) == GetIs(item, "modified", TRUE)

\* An item as the promotion leaves it: every other key is kept.
Promotion(item) ==
    [k \in (DOMAIN item) \cup {"location", "modified"} |->
        IF k = "location" THEN "header" ELSE IF k = "modified" THEN TRUE ELSE item[k]]

RECURSIVE MapPromotion(_)
MapPromotion(s) == IF s = <<>> THEN <<>> ELSE <<Promotion(Head(s))>> \o MapPromotion(Tail(s))

\* The body items among the first d items of t, promoted, in their order.
PromotedOf(t, d) == MapPromotion(SelectSeq(SliceTo(t, d), IsBody))

\* t without its first d items.
RemainderOf(t, d) == SliceFrom(t, d)

\* The remainder with the promoted items right before its first header,
\* or at its end when it has no header.
RelocationOf(t, d) ==
    LET rem == RemainderOf(t, d)
        headers == {i \in 1..Len(rem) : GetIs(rem[i], "location", "header")}
    IN  IF headers = {} THEN rem \o PromotedOf(t, d)
        ELSE LET k == CHOOSE i \in headers : \A j \in headers : i <= j
             IN  SubSeq(rem, 1, k - 1) \o PromotedOf(t, d) \o SubSeq(rem, k, Len(rem))

\* C1: whenever the translation has fewer headers than the origin,
\* correct_headers returns the translation without its first `deficit` items,
\* with the promoted items inserted together and in order right before the
\* first header of that remainder, or appended when it has no header.
C1_Relocation ==
    (pc # "loaded" /\ Deficit > 0) =>
        /\ corrected_translation.status = "ok"
        /\ corrected_translation.value = RelocationOf(translation, Deficit)

\* C2: whenever the translation has fewer headers than the origin,
\* correct_headers examines exactly its first `deficit` items: those located
\* in the body become modified headers and are promoted, the others among
\* them are left as they are and are not promoted, and no later item is
\* changed.
C2_PrefixPromotion ==
    (pc # "loaded" /\ Deficit > 0) =>
        /\ corrected_translation.status = "ok"
        /\ Len(corrected_translation.arg) = Len(translation)
        /\ \A i \in 1..Len(translation) :
              corrected_translation.arg[i] =
                  IF i <= Deficit /\ IsBody(translation[i])
                  THEN Promotion(translation[i]) ELSE translation[i]
        /\ SelectSeq(corrected_translation.value, IsModified) = PromotedOf(translation, Deficit)

\* C3: whenever the origin has no more headers than the translation,
\* correct_headers returns the translation as it was: the same items in the
\* same order, no location reassigned and no modified flag added.
C3_NoOpWhenBalanced ==
    (pc # "loaded" /\ HeaderCount(origin) <= HeaderCount(translation)) =>
        /\ corrected_translation.status = "ok"
        /\ corrected_translation.value = translation
        /\ corrected_translation.arg = translation

C3_Witness ==
    /\ pc = "corrected"
    /\ HeaderCount(origin) < HeaderCount(translation)
    /\ HeaderCount(origin) > 0
    /\ \E i \in 1..Len(translation) : IsBody(translation[i])
    /\ corrected_translation.value = translation

\* C4: correct_headers never fails: for any two content sequences, with
\* items that carry no location and with a deficit beyond the length of the
\* translation included, it returns a sequence.
C4_Total == pc # "loaded" => corrected_translation.status = "ok"

\* C5: a second correction against the same origin returns the corrected
\* translation unchanged, the header counts being balanced after the first
\* (read on the runs in which both applications return).
C5_Idempotent ==
    (pc = "recorrected" /\ recorrected_translation.status = "ok") =>
        /\ HeaderCount(origin) <= HeaderCount(corrected_translation.value)
        /\ recorrected_translation.value = corrected_translation.value

\* No correction is due, or each of the first `deficit` items of the
\* translation exists and is located in the body.
BodyPrefix ==
    \/ Deficit <= 0
    \/ /\ Deficit <= Len(translation)
       /\ \A i \in 1..Deficit : IsBody(translation[i])

\* C5 (amended): when each of the first `deficit` items of the translation is
\* a body item, the first correction balances the header counts; and
\* whenever the corrected translation is balanced, a second correction
\* against the same origin returns it unchanged.
C5_IdempotentOnceBalanced ==
    /\ (pc # "loaded" /\ BodyPrefix) =>
          /\ corrected_translation.status = "ok"
          /\ HeaderCount(origin) <= HeaderCount(corrected_translation.value)
    /\ (pc = "recorrected" /\
        HeaderCount(origin) <= HeaderCount(corrected_translation.value)) =>
          /\ recorrected_translation.status = "ok"
          /\ recorrected_translation.value = corrected_translation.value
          /\ recorrected_translation.arg = corrected_translation.value

C5_Witness ==
    /\ pc = "recorrected"
    /\ Deficit = 2
    /\ BodyPrefix
    /\ HeaderCount(translation) > 0
    /\ recorrected_translation.value = corrected_translation.value
    /\ recorrected_translation.value # translation

\* C9: correct_headers never removes a header: the sequence it returns has
\* at least as many header items as the translation it was given, each
\* header item of the translation being still in it.
C9_HeadersKept ==
    (pc # "loaded" /\ corrected_translation.status = "ok") =>
        /\ HeaderCount(corrected_translation.value) >= HeaderCount(translation)
        /\ \A i \in 1..Len(translation) :
              GetIs(translation[i], "location", "header") =>
                  \E j \in 1..Len(corrected_translation.value) :
                      corrected_translation.value[j] = translation[i]

(***************************************************************************)
(* Properties of the extraction                                            *)
(***************************************************************************)
\* The block an item of the extracted sequence belongs to: 1 body,
\* 2 header, 3 footer, 4 footnote.
BlockOf(item) ==
    IF GetIs(item, "type", "footnote") THEN 4
    ELSE IF GetIs(item, "location", "footer") THEN 3
    ELSE IF GetIs(item, "location", "header") THEN 2
    ELSE 1

\* The number of elements of a container that yield an item.
Yielding(elements) ==
    Cardinality({i \in 1..Len(elements) :
        \/ elements[i].tag = "tbl"
        \/ elements[i].tag = "p" /\ strip(join(elements[i].runs)) # <<>>})

\* The number of header items and of footer items the sections yield.
RECURSIVE YieldOfSections(_, _)
YieldOfSections(sections, part) ==
    IF sections = <<>> THEN 0
    ELSE Yielding(Head(sections)[part]) + YieldOfSections(Tail(sections), part)

\* The item a body element yields, if any: a table yields a table item
\* without location, a paragraph with text a text item located in the body.
BodyItemOf(element) ==
    IF element.tag = "tbl" THEN <<[table |-> extract_table(element)]>>
    ELSE IF element.tag = "p" /\ strip(join(element.runs)) # <<>>
    THEN <<[text |-> strip(join(element.runs)), location |-> "body"]>>
    ELSE <<>>

\* The items of the body elements, in traversal order.
RECURSIVE InTraversalOrder(_)
InTraversalOrder(elements) ==
    IF elements = <<>> THEN <<>>
    ELSE InTraversalOrder(SubSeq(elements, 1, Len(elements) - 1))
         \o BodyItemOf(elements[Len(elements)])

\* C6: the sequence extract_content_from_document returns is made of the
\* body items in body traversal order, then all header items, then all
\* footer items, then all footnote items, whatever the number of sections.
C6_BlockOrder ==
    (pc = "extracted" /\ content_list.status = "ok") =>
        LET out == content_list.value
            block(n) == SelectSeq(out, LAMBDA item : BlockOf(item) = n)
        IN  /\ \A i, j \in 1..Len(out) : i < j => BlockOf(out[i]) <= BlockOf(out[j])
            /\ block(1) = InTraversalOrder(document.body)
            /\ Len(block(2)) = YieldOfSections(document.sections, "header")
            /\ Len(block(3)) = YieldOfSections(document.sections, "footer")
            /\ \A i, j \in 1..Len(out) :
                  (BlockOf(out[i]) = 2 /\ BlockOf(out[j]) = 3) => i < j

C6_Witness ==
    /\ pc = "extracted"
    /\ content_list.status = "ok"
    /\ Len(document.sections) >= 2
    /\ \A i \in 1..Len(document.sections) :
          /\ document.sections[i].header # <<>>
          /\ document.sections[i].footer # <<>>
    /\ \A n \in 1..4 : \E i \in 1..Len(content_list.value) : BlockOf(content_list.value[i]) = n
    /\ Len(SelectSeq(content_list.value, LAMBDA item : BlockOf(item) = 2)) >= 2
    /\ Len(SelectSeq(content_list.value, LAMBDA item : BlockOf(item) = 3)) >= 2

\* The cells of the only row of the table given, each extracted.
RowCells == [c \in 1..Len(table.rows[1]) |-> extract_content_from_cell(table.rows[1][c])]

\* cells is kept with each of its items repeated one or more times in a row.
RECURSIVE Expands(_, _)
Expands(kept, cells) ==
    IF kept = <<>> THEN cells = <<>>
    ELSE /\ cells # <<>>
         /\ Head(cells) = Head(kept)
         /\ \/ Expands(Tail(kept), Tail(cells))
            \/ Expands(kept, Tail(cells))

\* C7: in every row extract_table returns, each run of consecutive equal
\* cells is one cell and nothing else is removed: no two adjacent cells are
\* equal, equal cells that are not adjacent are both kept, and the cells kept
\* are in their original order.
C7_AdjacentDedup ==
    pc = "extracted" =>
        /\ Len(table_data) = 1
        /\ \A i \in 1..(Len(table_data[1]) - 1) : table_data[1][i] # table_data[1][i + 1]
        /\ Expands(table_data[1], RowCells)

C7_Witness ==
    /\ pc = "extracted"
    /\ Len(RowCells) = 4
    /\ RowCells[1] = RowCells[2]
    /\ RowCells[2] # RowCells[3]
    /\ RowCells[4] = RowCells[1]
    /\ table.rows[1][1] # table.rows[1][2]
    /\ table_data[1] = <<RowCells[1], RowCells[3], RowCells[4]>>

\* The items of a container, one per yielding element, in element order.
RECURSIVE InElementOrder(_, _)
InElementOrder(elements, loc) ==
    IF elements = <<>> THEN <<>>
    ELSE (IF Head(elements).tag = "tbl"
          THEN <<[table |-> extract_table(Head(elements)), location |-> loc]>>
          ELSE IF Head(elements).tag = "p" /\ strip(join(Head(elements).runs)) # <<>>
          THEN <<[text |-> strip(join(Head(elements).runs)), location |-> loc]>>
          ELSE <<>>) \o InElementOrder(Tail(elements), loc)

\* C10: the items of a header or footer come out in the order of the
\* container's elements, paragraphs and tables interleaved as in the body:
\* a table before a non-empty paragraph yields a table item before the text
\* item.
C10_ContainerOrder ==
    pc = "extracted" => content_list.value = InElementOrder(container, location)

(***************************************************************************)
(* Properties of the pipeline                                              *)
(***************************************************************************)
\* The document does not open, or its traversal raises.
Fails(file) ==
    \/ ~file.readable
    \/ \E i \in 1..Len(file.document.rels) :
          /\ file.document.rels[i].reltype = "footnotes"
          /\ ~file.document.rels[i].target_part.blob.well_formed

Saved(path) == \E i \in 1..Len(log) : log[i] = "save_json " \o path

\* C8: a document that fails to open or to traverse is extracted as the
\* empty sequence, and the correction still runs to completion and writes a
\* corrected sequence, whichever of the two documents failed.
C8_DegradedNotBlocked ==
    /\ (pc # "main" /\ Fails(docx_files[original_docx_path])) =>
          json_files[original_json_path] = json_dump(<<>>)
    /\ (pc = "translation_saved" /\ Fails(docx_files[translation_docx_path])) =>
          json_files[translation_json_path] = json_dump(<<>>)
    /\ (pc = "done" /\ (\/ Fails(docx_files[original_docx_path])
                        \/ Fails(docx_files[translation_docx_path]))) =>
          /\ corrected_translation.status = "ok"
          /\ Saved(corrected_translation_json_path)

====
